---- MODULE Spec2Model ----
(***************************************************************************)
(* Model of scripts/transaction_graph_generator.py (AMLSim): the degree    *)
(* sequence balancer, the directed configuration model, the shared         *)
(* transaction graph and the alert pattern engine of TransactionGenerator. *)
(***************************************************************************)
EXTENDS Integers, Sequences, FiniteSets, TLC

VARIABLES
    nodes,              \* self.g.nodes(): account ids in insertion order
    isFraud,            \* self.g.node[n]["isFraud"], one entry per account
    g,                  \* edges of self.g: records [src, dst, key, amount, date, label]
    tx_id,              \* self.tx_id
    hubs,               \* self.hubs
    subject_candidates, \* self.subject_candidates
    alert_id,           \* self.alert_id
    alert_groups,       \* self.alert_groups: alert id -> sub-graph record
    err,                \* the exception that ended the run, or "none"
    created,            \* history: <<src, dst, key>> of every edge, in creation order
    last,               \* history: the last add_alert_pattern / alert row call
    bpc,                \* position inside generate_normal_transactions
    num_accounts,       \* self.num_accounts
    raw_in, raw_out,    \* degree sequences read from the degree file (lines 380-390)
    in_deg, out_deg,    \* the sequences get_degrees returned
    in_shuffled,        \* in_stublist right after random.shuffle (line 456)
    in_stublist,        \* in_stublist after the pairing loop (lines 460-469)
    out_stublist,       \* out_stublist after random.shuffle (line 457)
    selfloop_log,       \* the "Self loop from/to" lines printed (lines 472-474)
    total_steps,        \* self.total_steps (configuration)
    default_min_amount, \* self.default_min_amount (configuration)
    default_max_amount, \* self.default_max_amount (configuration)
    degree_threshold,   \* self.degree_threshold (configuration)
    selected,           \* history: every (subject, members) get_alert_members returned
    row,                \* the alert-table row load_alert_patterns is expanding
    row_left,           \* repetitions of that row still to run (line 642)
    rows_read,          \* rows load_alert_patterns has read so far
    init_balance,       \* per account: the init_balance node attribute
    loop                \* the generation loop of add_alert_pattern that is running, with its locals

vars == <<nodes, isFraud, init_balance, g, tx_id, hubs, subject_candidates, alert_id,
          alert_groups, err, created, last, bpc, num_accounts, raw_in, raw_out,
          in_deg, out_deg, in_shuffled, in_stublist, out_stublist, selfloop_log,
          total_steps, default_min_amount, default_max_amount, degree_threshold,
          selected, row, row_left, rows_read, loop>>

graphVars == <<nodes, isFraud, init_balance, g, tx_id, created>>
alertVars == <<hubs, subject_candidates, alert_id, alert_groups, last,
               selected, row, row_left, rows_read>>
confVars == <<total_steps, default_min_amount, default_max_amount, degree_threshold>>
backboneVars == <<bpc, num_accounts, raw_in, raw_out, in_deg, out_deg,
                  in_shuffled, in_stublist, out_stublist, selfloop_log>>

\* Python's None for an amount, a date, a count or a subject.
None == -1

-----------------------------------------------------------------------------
\* Bounds of the model.
MaxAccounts == 3    \* accounts loaded into the graph
MaxLen == 3         \* entries of a degree sequence read from the degree file
MaxDeg == 2         \* largest degree in the degree file
MaxStubs == 3       \* largest degree sum handed to the configuration model
MaxTx == 2          \* add_transaction calls made directly
MaxAlerts == 1      \* direct add_alert_pattern calls in one run
MaxRowAlerts == 2   \* add_alert_pattern calls made for alert-table rows
MaxRows == 1        \* alert-table rows read
MaxSelections == 2  \* add_alert_pattern calls in a run that follows the subjects
MaxFreq == 2        \* largest explicit transaction_freq / transaction_count
MaxFloor == 2       \* largest explicit aggregated_amount
MaxRepeat == 2      \* largest count column of an alert-table row
MaxBalance == 2     \* largest initial balance of an account
MaxLoop == 4        \* iterations one generation loop is followed for

-----------------------------------------------------------------------------
\* Sequence helpers.

RECURSIVE Sum(_)
Sum(s) == IF s = <<>> THEN 0 ELSE Head(s) + Sum(Tail(s))

Range(s) == {s[i] : i \in 1..Len(s)}

\* Python's  s * k  on a list
RECURSIVE Repeat(_, _)
Repeat(s, k) == IF k <= 0 THEN <<>> ELSE s \o Repeat(s, k - 1)

Count(s, v) == Cardinality({i \in 1..Len(s) : s[i] = v})

-----------------------------------------------------------------------------
\* get_degrees (lines 393-425), from the two parsed sequences on.

\* The shrink loop, lines 401-409.
RECURSIVE ShrinkLoop(_, _, _, _)
ShrinkLoop(ins, outs, i, diff) ==
    IF i > Len(ins) THEN [in |-> <<>>, out |-> <<>>]
    ELSE IF ins[i] = outs[i] /\ diff > 0
         THEN ShrinkLoop(ins, outs, i + 1, diff - 1)
         ELSE LET r == ShrinkLoop(ins, outs, i + 1, diff)
              IN  [in |-> <<ins[i]>> \o r.in, out |-> <<outs[i]>> \o r.out]

\* The extension branch, lines 415-422.
ExtendDegrees(ins, outs, num_v) ==
    LET total_v == Len(ins)
        repeats == num_v \div total_v
        remain  == num_v - total_v * repeats
    IN  [in  |-> Repeat(ins, repeats) \o Repeat(<<1>>, remain),
         out |-> Repeat(outs, repeats) \o Repeat(<<1>>, remain)]

get_degrees(ins, outs, num_v) ==
    LET total_v == Len(ins) IN
    IF Len(ins) # Len(outs)
    THEN [err |-> "AssertionError", in |-> <<>>, out |-> <<>>]
    ELSE IF total_v <= num_v /\ total_v = 0
    THEN [err |-> "ZeroDivisionError", in |-> <<>>, out |-> <<>>]
    ELSE LET r == IF total_v > num_v
                  THEN ShrinkLoop(ins, outs, 1, total_v - num_v)
                  ELSE ExtendDegrees(ins, outs, num_v)
         IN  IF Sum(r.in) # Sum(r.out)
             THEN [err |-> "AssertionError", in |-> r.in, out |-> r.out]
             ELSE [err |-> "none", in |-> r.in, out |-> r.out]

-----------------------------------------------------------------------------
\* _directed_configuration_model (lines 427-475).

\* Lines 441-444: the shorter sequence is padded with zeros.
PadZeros(s, n) == s \o Repeat(<<0>>, n - Len(s))

Max2(a, b) == IF a >= b THEN a ELSE b

\* Lines 453-455: node n (0-based) repeated deg[n] times, in node order.
RECURSIVE StubList(_, _)
StubList(deg, n) ==
    IF n >= Len(deg) THEN <<>>
    ELSE Repeat(<<n>>, deg[n + 1]) \o StubList(deg, n + 1)

\* random.shuffle (lines 456-457): every arrangement of the stub list.
Shuffles(s) ==
    {t \in [1..Len(s) -> Range(s)] : \A v \in Range(s) : Count(t, v) = Count(s, v)}

\* A one-sided variant of line 468: position j keeps its entry.
SwapStubOverwrite(stubs, i, j) == [stubs EXCEPT ![i] = stubs[j]]

\* Line 468: in_stublist[i], in_stublist[j] = in_stublist[j], in_stublist[i]
SwapStub(stubs, i, j) == [stubs EXCEPT ![i] = stubs[j], ![j] = stubs[i]]

\* A variant of line 464 whose scan starts at the first position of the list.
FindSwapFromStart(stubs, src, j) ==
    IF \E k \in 1..Len(stubs) : stubs[k] # src
    THEN CHOOSE k \in 1..Len(stubs) :
            stubs[k] # src /\ \A m \in 1..(k - 1) : stubs[m] = src
    ELSE 0

\* Lines 464-466: the first j in i+1..num_edges with _src != in_stublist[j];
\* 0 when the inner loop ends without a break.
RECURSIVE FindSwap(_, _, _)
FindSwap(stubs, src, j) ==
    IF j > Len(stubs) THEN 0
    ELSE IF src # stubs[j] THEN j
    ELSE FindSwap(stubs, src, j + 1)

\* Lines 460-469: the pairing loop from position i on; returns in_stublist.
RECURSIVE MatchStubs(_, _, _)
MatchStubs(outs, ins, i) ==
    IF i > Len(ins) THEN ins
    ELSE IF outs[i] = ins[i]
         THEN LET j == FindSwap(ins, outs[i], i + 1)
              IN  MatchStubs(outs, IF j = 0 THEN ins ELSE SwapStub(ins, i, j), i + 1)
         ELSE MatchStubs(outs, ins, i + 1)

\* Lines 460-469, position by position: in_stublist as it is when position i,
\* i+1, ... is about to be processed, and last as the loop leaves it.
RECURSIVE MatchTrace(_, _, _)
MatchTrace(outs, ins, i) ==
    IF i > Len(ins) THEN <<ins>>
    ELSE IF outs[i] = ins[i]
         THEN LET j == FindSwap(ins, outs[i], i + 1)
              IN  <<ins>> \o MatchTrace(outs, IF j = 0 THEN ins ELSE SwapStub(ins, i, j),
                                        i + 1)
         ELSE <<ins>> \o MatchTrace(outs, ins, i + 1)

\* Line 471: zip(out_stublist, in_stublist)
ZipEdges(outs, ins) ==
    [i \in 1..(IF Len(outs) <= Len(ins) THEN Len(outs) ELSE Len(ins)) |->
        [src |-> outs[i], dst |-> ins[i]]]

\* MultiDiGraph.edges() of the generated graph: by source node, then by
\* neighbour in order of first insertion, then by insertion.
RECURSIVE GroupByDst(_)
GroupByDst(es) ==
    IF es = <<>> THEN <<>>
    ELSE LET d == Head(es).dst
         IN  SelectSeq(es, LAMBDA e : e.dst = d)
             \o GroupByDst(SelectSeq(es, LAMBDA e : e.dst # d))

RECURSIVE EdgesView(_, _, _)
EdgesView(es, n, num_nodes) ==
    IF n >= num_nodes THEN <<>>
    ELSE GroupByDst(SelectSeq(es, LAMBDA e : e.src = n))
         \o EdgesView(es, n + 1, num_nodes)

\* Lines 472-474: the positions of edges() that are reported as self-loops.
SelfLoopReport(view) ==
    LET idx == {i \in 1..Len(view) : view[i].src = view[i].dst}
    IN  {<<view[i].src, i - 1>> : i \in idx}

-----------------------------------------------------------------------------
\* networkx MultiDiGraph edges, as used through self.g.add_edge.

EdgesBetween(G, u, v) == {e \in G : e.src = u /\ e.dst = v}

KeysBetween(G, u, v) == {e.key : e \in EdgesBetween(G, u, v)}

\* add_edge without a key (lines 704-705 and the like): networkx takes
\* key = len(keydict) and counts up while that key is in use.
RECURSIVE FreeKey(_, _)
FreeKey(keys, k) == IF k \in keys THEN FreeKey(keys, k + 1) ELSE k

\* A variant that hands out key 0 for every edge.
new_edge_keyZero(G, u, v) == 0

\* The key networkx chooses for a new edge u -> v.
new_edge_key(G, u, v) ==
    FreeKey(KeysBetween(G, u, v), Cardinality(KeysBetween(G, u, v)))

\* self.g.add_edge(src, dst, amount=amount, date=date), lines 705, 720, ...
add_edge_auto(G, u, v, amount, date) ==
    G \cup {[src |-> u, dst |-> v, key |-> new_edge_key(G, u, v),
             amount |-> amount, date |-> date, label |-> ""]}

\* self.g.add_edge(src, dst, key=self.tx_id, label="transaction", ...), line 521:
\* an edge src -> dst that already has this key gets its attributes updated.
add_edge_keyed(G, u, v, k, amount, date) ==
    {e \in G : ~(e.src = u /\ e.dst = v /\ e.key = k)}
    \cup {[src |-> u, dst |-> v, key |-> k,
           amount |-> amount, date |-> date, label |-> "transaction"]}

\* The graph part of the program state, threaded through the operations.
GraphState == [g |-> g, tx_id |-> tx_id, created |-> created, err |-> err]

\* check_account_exist (lines 157-159)
check_account_exist(nodeset, aid) == aid \in nodeset

\* A variant of lines 518-522 that tests for the self-loop after the edge is in.
add_transactionLateCheck(st, nodeset, src, dst, amount, date) ==
    IF ~check_account_exist(nodeset, src) \/ ~check_account_exist(nodeset, dst)
    THEN [st EXCEPT !.err = "KeyError"]
    ELSE [g       |-> add_edge_keyed(st.g, src, dst, st.tx_id, amount, date),
          tx_id   |-> st.tx_id + 1,
          created |-> IF st.tx_id \in KeysBetween(st.g, src, dst)
                      THEN st.created
                      ELSE Append(st.created, <<src, dst, st.tx_id>>),
          err     |-> IF src = dst THEN "ValueError" ELSE "none"]

\* add_transaction (lines 508-524)
add_transaction(st, nodeset, src, dst, amount, date) ==
    IF ~check_account_exist(nodeset, src) \/ ~check_account_exist(nodeset, dst)
    THEN [st EXCEPT !.err = "KeyError"]
    ELSE IF src = dst
    THEN [st EXCEPT !.err = "ValueError"]
    ELSE [g       |-> add_edge_keyed(st.g, src, dst, st.tx_id, amount, date),
          tx_id   |-> st.tx_id + 1,
          created |-> IF st.tx_id \in KeysBetween(st.g, src, dst)
                      THEN st.created
                      ELSE Append(st.created, <<src, dst, st.tx_id>>),
          err     |-> "none"]

\* Lines 484-489: one add_transaction per edge of the generated graph.
RECURSIVE AddBaseLoop(_, _, _, _)
AddBaseLoop(st, view, i, nodeseq) ==
    IF i > Len(view) \/ st.err # "none" THEN st
    ELSE LET e == view[i] IN
         IF e.src = e.dst
         THEN [st EXCEPT !.err = "AssertionError"]
         ELSE IF e.src >= Len(nodeseq) \/ e.dst >= Len(nodeseq)
         THEN [st EXCEPT !.err = "IndexError"]
         ELSE AddBaseLoop(add_transaction(st, Range(nodeseq), nodeseq[e.src + 1],
                                          nodeseq[e.dst + 1], None, None),
                          view, i + 1, nodeseq)

-----------------------------------------------------------------------------
\* generate_normal_transactions (lines 372-489), one action per stage.

\* in_deg, out_deg = get_degrees(deg_file, self.num_accounts), line 478
GetDegrees ==
    /\ bpc = "start"
    /\ err = "none"
    /\ LET r == get_degrees(raw_in, raw_out, num_accounts) IN
       /\ err' = r.err
       /\ in_deg' = r.in
       /\ out_deg' = r.out
       /\ bpc' = IF r.err = "none" THEN "balanced" ELSE "failed_degrees"
    /\ UNCHANGED <<graphVars, alertVars, confVars, loop, num_accounts, raw_in, raw_out,
                   in_shuffled, in_stublist, out_stublist, selfloop_log>>

\* g = _directed_configuration_model(in_deg, out_deg, self.seed), line 480
DirectedConfigurationModel ==
    /\ bpc = "balanced"
    /\ err = "none"
    /\ IF Sum(in_deg) # Sum(out_deg)
       THEN /\ err' = "NetworkXError"
            /\ bpc' = "failed_model"
            /\ UNCHANGED <<in_deg, out_deg, in_shuffled, in_stublist,
                           out_stublist, selfloop_log>>
       ELSE LET num_nodes == Max2(Len(in_deg), Len(out_deg))
                ind  == PadZeros(in_deg, num_nodes)
                outd == PadZeros(out_deg, num_nodes)
            IN  /\ in_deg' = ind
                /\ out_deg' = outd
                /\ \E ish \in Shuffles(StubList(ind, 0)),
                      osh \in Shuffles(StubList(outd, 0)) :
                       /\ in_shuffled' = ish
                       /\ out_stublist' = osh
                       /\ in_stublist' = MatchStubs(osh, ish, 1)
                       /\ selfloop_log' =
                            SelfLoopReport(EdgesView(ZipEdges(osh, MatchStubs(osh, ish, 1)),
                                                     0, num_nodes))
                /\ err' = "none"
                /\ bpc' = "matched"
    /\ UNCHANGED <<graphVars, alertVars, confVars, loop, num_accounts, raw_in, raw_out>>

\* Lines 483-489: the generated edges become transactions of self.g.
AddBaseTransactions ==
    /\ bpc = "matched"
    /\ err = "none"
    /\ LET view == EdgesView(ZipEdges(out_stublist, in_stublist), 0, Len(in_deg))
           st   == AddBaseLoop(GraphState, view, 1, nodes)
       IN  /\ g' = st.g
           /\ tx_id' = st.tx_id
           /\ created' = st.created
           /\ err' = st.err
           /\ bpc' = IF st.err = "none" THEN "done" ELSE "failed_add"
           \* on return the locals of generate_normal_transactions are gone
           /\ IF st.err = "none"
              THEN /\ raw_in' = <<>> /\ raw_out' = <<>>
                   /\ in_deg' = <<>> /\ out_deg' = <<>>
                   /\ in_shuffled' = <<>> /\ in_stublist' = <<>>
                   /\ out_stublist' = <<>> /\ selfloop_log' = {}
              ELSE UNCHANGED <<raw_in, raw_out, in_deg, out_deg, in_shuffled,
                               in_stublist, out_stublist, selfloop_log>>
    /\ UNCHANGED <<nodes, isFraud, init_balance, alertVars, confVars, loop, num_accounts>>

\* The degree sequences a degree file can hold.
DegSeqs == UNION {[1..n -> 0..MaxDeg] : n \in 0..MaxLen}

NoLast == [kind |-> "none"]

NoRow == [type |-> "none"]
NoLoop == [pc |-> "idle"]

\* The state after load_account_list (load_account_param, lines 349-368) put
\* num_accounts accounts 0..num_accounts-1 into the graph.
AfterLoad ==
    /\ nodes = [i \in 1..num_accounts |-> i - 1]
    /\ isFraud = [a \in 0..(num_accounts - 1) |-> FALSE]
    /\ init_balance = [a \in 0..(num_accounts - 1) |-> 1]
    /\ g = {}
    /\ tx_id = 0
    /\ hubs = {}
    /\ subject_candidates = {}
    /\ alert_id = 0
    /\ alert_groups = <<>>
    /\ err = "none"
    /\ created = <<>>
    /\ last = NoLast
    /\ selected = <<>>
    /\ row = NoRow
    /\ row_left = 0
    /\ rows_read = 0
    /\ loop = NoLoop
    /\ bpc = "start"
    /\ in_deg = <<>>
    /\ out_deg = <<>>
    /\ in_shuffled = <<>>
    /\ in_stublist = <<>>
    /\ out_stublist = <<>>
    /\ selfloop_log = {}

\* Accounts loaded, any degree file within the bounds still to be read.
InitBackbone ==
    /\ num_accounts \in 1..MaxAccounts
    /\ raw_in \in DegSeqs
    /\ raw_out \in DegSeqs
    /\ Len(raw_in) = Len(raw_out)
    /\ Sum(get_degrees(raw_in, raw_out, num_accounts).in) <= MaxStubs
    /\ Sum(get_degrees(raw_in, raw_out, num_accounts).out) <= MaxStubs
    /\ total_steps = 1
    /\ default_min_amount = 1
    /\ default_max_amount = 1
    /\ degree_threshold = 1
    /\ AfterLoad

NextBackbone == GetDegrees \/ DirectedConfigurationModel \/ AddBaseTransactions

SpecBackbone == InitBackbone /\ [][NextBackbone]_vars

-----------------------------------------------------------------------------
\* Properties of the backbone generation, checked under SpecBackbone.

\* The edge list _directed_configuration_model hands to add_edges_from.
cm_edges == ZipEdges(out_stublist, in_stublist)

\* The configuration model has run (its stub lists are those of this run).
ModelHasRun == bpc \in {"matched", "failed_add"}

\* C1: for equal-length degree sequences with equal sums and a target count
\* num_accounts, get_degrees returns two sequences of exactly num_accounts
\* entries each whose sums are equal, whether the supplied length is greater
\* than num_accounts or not.
C1_BalancedLengthAndSum ==
    (bpc = "balanced" /\ Sum(raw_in) = Sum(raw_out))
        => /\ Len(in_deg) = num_accounts
           /\ Len(out_deg) = num_accounts
           /\ Sum(in_deg) = Sum(out_deg)

\* C5: when stub matching ends with a self-loop that found no later swap
\* target, the self-loop stays in the edge list, is reported, and
\* generate_normal_transactions raises no error.
C5_ResidualSelfLoopTolerated ==
    (/\ ModelHasRun
     /\ Len(in_deg) = num_accounts
     /\ \E i \in 1..Len(cm_edges) : cm_edges[i].src = cm_edges[i].dst)
        => (selfloop_log # {} /\ err = "none")

\* C6: for every shuffle outcome, each node n is the source of exactly
\* out_deg[n] edges and the destination of exactly in_deg[n] edges of the
\* edge list the configuration model produces.
C6_DegreesPreserved ==
    ModelHasRun =>
        \A n \in 0..(Len(in_deg) - 1) :
            /\ Cardinality({i \in 1..Len(cm_edges) : cm_edges[i].src = n}) = out_deg[n + 1]
            /\ Cardinality({i \in 1..Len(cm_edges) : cm_edges[i].dst = n}) = in_deg[n + 1]

\* C6 witness: a run in which the pairing loop swapped two in-stubs.
C6_Witness ==
    /\ ModelHasRun
    /\ in_shuffled # in_stublist
    /\ Len(cm_edges) >= 2
    /\ C6_DegreesPreserved

-----------------------------------------------------------------------------
\* get_alert_members (lines 168-191).

\* [hub] + list(self.g.adj[hub].keys()), line 182
Neighbourhood(G, hub) == {hub} \cup {e.dst : e \in {x \in G : x.src = hub}}

\* Lines 179-182: the candidate sets the inner while loop can end with.  A hub
\* whose neighbourhood adds nothing leaves the loop where it was.
RECURSIVE CandidateSets(_, _, _, _)
CandidateSets(G, H, num, cand) ==
    IF Cardinality(cand) >= num THEN {cand}
    ELSE UNION {CandidateSets(G, H, num, cand \cup Neighbourhood(G, h)) :
                    h \in {x \in H : ~(Neighbourhood(G, x) \subseteq cand)}}

\* A variant of line 183 that draws with replacement.
DrawsWithReplacement(cand, num) == [1..num -> cand]

\* np.random.choice(list(candidates), num, False), line 183
Draws(cand, num) ==
    {m \in [1..num -> cand] : \A i, j \in 1..num : i # j => m[i] # m[j]}

\* Every (subject, members) the outer loop can return with (lines 178-191);
\* a draw without a subject candidate is thrown away and drawn again.
get_alert_members(G, H, pool, num) ==
    UNION {{[subject |-> sb, members |-> m] : sb \in Range(m) \cap pool} :
              m \in UNION {Draws(c, num) : c \in CandidateSets(G, H, num, {})}}

\* A variant of lines 189-190 without the test of has_subject.
RemoveSubjectAlways(pool, subject, has_subject) == pool \ {subject}

\* A variant of lines 189-190 that leaves the pool alone.
RemoveSubjectNever(pool, subject, has_subject) == pool

\* Lines 189-190: if has_subject: self.subject_candidates.remove(subject)
RemoveSubject(pool, subject, has_subject) ==
    IF has_subject THEN pool \ {subject} ELSE pool

-----------------------------------------------------------------------------
\* add_alert_pattern (lines 651-853): the transactions one pattern generates.

\* self.alert_types, lines 123-124
alert_types ==
    [t \in {"fan_out", "fan_in", "cycle", "bipartite", "stack", "dense"} |->
        CASE t = "fan_out" -> 1 [] t = "fan_in" -> 2 [] t = "cycle" -> 3
          [] t = "bipartite" -> 4 [] t = "stack" -> 5 [] OTHER -> 6]

\* The pattern types the if/elif chain of lines 696-838 has a branch for.
HandledTypes ==
    {"fan_in", "fan_out", "bipartite", "mixed", "stack", "dense", "cycle"}

Tx(s, d, a, t) == [src |-> s, dst |-> d, amount |-> a, date |-> t]

RECURSIVE SumAmount(_)
SumAmount(run) == IF run = <<>> THEN 0 ELSE Head(run).amount + SumAmount(Tail(run))

\* A variant of lines 708 and 724 whose test never holds.
StopRuleNever(mode, count, total, freq, floor) == FALSE

\* The break conditions: ">=" on lines 708, 724, 775; ">" on lines 740, 792, 801;
\* the loops of lines 752, 760, 806 have none.
StopRule(mode, count, total, freq, floor) ==
    CASE mode = "ge" -> count >= freq /\ total >= floor
      [] mode = "gt" -> count > freq /\ total >= floor
      [] OTHER -> FALSE

\* One generation loop over (src, dst) pairs from position i on, either over
\* itertools.cycle(pairs) or over the pairs once: every sequence of transactions
\* it can add.  env holds the amounts and dates the random draws range over.
RECURSIVE LoopRuns(_, _, _, _, _, _, _, _, _)
LoopRuns(pairs, i, cyclic, mode, count, total, freq, floor, env) ==
    IF pairs = <<>> THEN {<<>>}
    ELSE IF i > Len(pairs)
    THEN IF cyclic
         THEN LoopRuns(pairs, 1, cyclic, mode, count, total, freq, floor, env)
         ELSE {<<>>}
    ELSE UNION {
           LET tx == Tx(pairs[i][1], pairs[i][2], a, t) IN
           IF StopRule(mode, count + 1, total + a, freq, floor)
           THEN {<<tx>>}
           ELSE {<<tx>> \o r :
                   r \in LoopRuns(pairs, i + 1, cyclic, mode, count + 1,
                                  total + a, freq, floor, env)}
           : a \in env.amounts, t \in env.dates}

\* itertools.product(src_list, dst_list), in iteration order
Product(src_list, dst_list) ==
    [k \in 1..(Len(src_list) * Len(dst_list)) |->
        <<src_list[((k - 1) \div Len(dst_list)) + 1],
          dst_list[((k - 1) % Len(dst_list)) + 1]>>]

\* Python's members[a:b]
Slice(s, a, b) == SubSeq(s, a + 1, b)

\* A variant of line 697 that keeps every member.
WithoutKeepAll(members, subject) == members

\* [n for n in members if n != subject], lines 697, 714, 805
Without(members, subject) == SelectSeq(members, LAMBDA n : n # subject)

\* Lines 811-823: per destination one random extra out-edge and in-edge.
RECURSIVE DenseExtra(_, _, _)
DenseExtra(dsts, k, env) ==
    IF k > Len(dsts) THEN {<<>>}
    ELSE LET dst == dsts[k]
             first == UNION {IF nb1 = dst THEN {<<>>}
                             ELSE {<<Tx(dst, nb1, a, t)>> :
                                      a \in env.amounts, t \in env.dates}
                             : nb1 \in Range(dsts)}
             second == UNION {IF nb2 = dst THEN {<<>>}
                              ELSE {<<Tx(nb2, dst, a, t)>> :
                                       a \in env.amounts, t \in env.dates}
                              : nb2 \in Range(dsts)}
         IN  {x \o y \o r : x \in first, y \in second,
                            r \in DenseExtra(dsts, k + 1, env)}

\* list(members).index(subject), line 826 (0-based)
IndexOf(members, subject) ==
    (CHOOSE i \in 1..Len(members) :
        members[i] = subject /\ \A j \in 1..(i - 1) : members[j] # subject) - 1

\* A variant of line 829 without sorted().
SortedDatesUnsorted(num, dates) == [1..num -> dates]

\* sorted([random.randrange(start_day, end_day) for _ in range(num)]), line 829
SortedDates(num, dates) ==
    {d \in [1..num -> dates] : \A i \in 1..(num - 1) : d[i] <= d[i + 1]}

\* Lines 696-838: every sequence of transactions the branch of pattern_type
\* can generate for these members.
PatternRuns(pattern_type, subject, members, transaction_freq, floor, env) ==
    LET num_members == Len(members)
        Freq(default) == IF transaction_freq = None THEN default ELSE transaction_freq
    IN
    CASE pattern_type = "fan_in" ->
           LET src_list == Without(members, subject)
               pairs == [i \in 1..Len(src_list) |-> <<src_list[i], subject>>]
           IN  LoopRuns(pairs, 1, TRUE, "ge", 0, 0, Freq(num_members - 1), floor, env)
      [] pattern_type = "fan_out" ->
           LET dst_list == Without(members, subject)
               pairs == [i \in 1..Len(dst_list) |-> <<subject, dst_list[i]>>]
           IN  LoopRuns(pairs, 1, TRUE, "ge", 0, 0, Freq(num_members - 1), floor, env)
      [] pattern_type = "bipartite" ->
           LET src_list == Slice(members, 0, num_members \div 2)
               dst_list == Slice(members, num_members \div 2, num_members)
           IN  LoopRuns(Product(src_list, dst_list), 1, FALSE, "gt", 0, 0,
                        Freq(Len(src_list) * Len(dst_list)), floor, env)
      [] pattern_type = "mixed" ->
           LET src == members[1]
               dst == members[num_members]
               src_list == Slice(members, 1, num_members \div 2)
               dst_list == Slice(members, num_members \div 2, num_members - 1)
               freq == Freq(Len(src_list) + Len(dst_list)
                            + Len(src_list) * Len(dst_list))
               fan_out == [i \in 1..Len(src_list) |-> <<src, src_list[i]>>]
               fan_in == [i \in 1..Len(dst_list) |-> <<dst_list[i], dst>>]
           IN  UNION {UNION {
                 {r1 \o r2 \o r3 :
                    r3 \in LoopRuns(fan_in, 1, TRUE, "ge", Len(r1) + Len(r2),
                                    SumAmount(r1) + SumAmount(r2), freq, floor, env)}
                 : r2 \in LoopRuns(Product(src_list, dst_list), 1, FALSE, "none",
                                   Len(r1), SumAmount(r1), freq, floor, env)}
                 : r1 \in LoopRuns(fan_out, 1, FALSE, "none", 0, 0, freq, floor, env)}
      [] pattern_type = "stack" ->
           LET src_list == Slice(members, 0, num_members \div 3)
               mid_list == Slice(members, num_members \div 3, (num_members * 2) \div 3)
               dst_list == Slice(members, (num_members * 2) \div 3, num_members)
               freq == Freq(Len(src_list) * Len(mid_list)
                            + Len(mid_list) * Len(dst_list))
           IN  UNION {
                 {r1 \o r2 :
                    r2 \in LoopRuns(Product(mid_list, dst_list), 1, FALSE, "gt",
                                    Len(r1), SumAmount(r1), freq, floor, env)}
                 : r1 \in LoopRuns(Product(src_list, mid_list), 1, FALSE, "gt",
                                   0, 0, freq, floor, env)}
      [] pattern_type = "dense" ->
           LET dsts == Without(members, subject)
               pairs == [i \in 1..Len(dsts) |-> <<subject, dsts[i]>>]
           IN  {r1 \o r2 :
                  r1 \in LoopRuns(pairs, 1, FALSE, "none", 0, 0, 0, floor, env),
                  r2 \in DenseExtra(dsts, 1, env)}
      [] pattern_type = "cycle" ->
           LET subject_index == IndexOf(members, subject)
               num == Len(members)
           IN  {[i \in 1..num |->
                   LET src_i == (subject_index + (i - 1)) % num
                       dst_i == (src_i + 1) % num
                   IN  Tx(members[src_i + 1], members[dst_i + 1], a, d[i])] :
                  a \in env.amounts, d \in SortedDates(num, env.dates)}
      [] OTHER -> {<<>>}

\* sub_g.add_edge / self.g.add_edge for each generated transaction, in order.
RECURSIVE AddAlertEdges(_, _, _)
AddAlertEdges(st, run, i) ==
    IF i > Len(run) THEN st
    ELSE LET t == run[i] IN
         AddAlertEdges(
            [st EXCEPT !.g = add_edge_auto(st.g, t.src, t.dst, t.amount, t.date),
                       !.created = Append(st.created,
                                          <<t.src, t.dst, new_edge_key(st.g, t.src, t.dst)>>)],
            run, i + 1)

-----------------------------------------------------------------------------
\* The operations of TransactionGenerator on the shared graph.

\* The node part of the program state: the accounts and their attributes.
AccountState == [nodes |-> nodes, isFraud |-> isFraud, init_balance |-> init_balance]

\* check_account_absent (lines 161-166)
check_account_absent(nodeseq, aid) == aid \notin Range(nodeseq)

\* A variant of lines 504-506 that calls add_node whatever the check says:
\* networkx then updates the attributes of the node that is there.
add_accountOverwrite(st, aid, balance) ==
    [nodes        |-> IF check_account_absent(st.nodes, aid)
                      THEN Append(st.nodes, aid) ELSE st.nodes,
     isFraud      |-> [a \in Range(st.nodes) \cup {aid} |->
                         IF a = aid THEN FALSE ELSE st.isFraud[a]],
     init_balance |-> [a \in Range(st.nodes) \cup {aid} |->
                         IF a = aid THEN balance ELSE st.init_balance[a]]]

\* add_account (lines 491-506): the node is added with its attributes if and
\* only if no account has the id.
add_account(st, aid, balance) ==
    IF check_account_absent(st.nodes, aid)
    THEN [nodes        |-> Append(st.nodes, aid),
          isFraud      |-> [a \in Range(st.nodes) \cup {aid} |->
                              IF a = aid THEN FALSE ELSE st.isFraud[a]],
          init_balance |-> [a \in Range(st.nodes) \cup {aid} |->
                              IF a = aid THEN balance ELSE st.init_balance[a]]]
    ELSE st

\* add_account as load_account_param calls it (lines 349-366).  As in
\* load_account_param (lines 349-366) the id is the next unused one; an id
\* that is already present is offered too.  Accounts are loaded before the
\* first transaction (lines 942-943).
AddAccount ==
    /\ err = "none"
    /\ g = {} /\ hubs = {} /\ subject_candidates = {}
    /\ \E aid \in 0..Len(nodes), balance \in 1..MaxBalance :
        /\ aid < MaxAccounts
        /\ LET st == add_account(AccountState, aid, balance)
           IN  /\ nodes' = st.nodes
               /\ isFraud' = st.isFraud
               /\ init_balance' = st.init_balance
        /\ last' = [kind |-> "add_account", aid |-> aid, init_balance |-> balance]
    /\ UNCHANGED <<g, tx_id, created, err, hubs, subject_candidates, alert_id,
                   alert_groups, selected, row, row_left, rows_read, confVars, loop, backboneVars>>

\* add_transaction(src, dst) (lines 508-524), as generate_normal_transactions
\* and add_subgraph call it: without amount and date.
AddTransaction ==
    /\ err = "none"
    /\ tx_id < MaxTx
    /\ \E src \in 0..(MaxAccounts - 1), dst \in 0..(MaxAccounts - 1) :
        LET st == add_transaction(GraphState, Range(nodes), src, dst, None, None)
        IN  /\ g' = st.g
            /\ tx_id' = st.tx_id
            /\ created' = st.created
            /\ err' = st.err
            /\ last' = [kind |-> "add_transaction", src |-> src, dst |-> dst,
                        raised |-> st.err]
    /\ UNCHANGED <<nodes, isFraud, init_balance, hubs, subject_candidates, alert_id,
                   alert_groups, selected, row, row_left, rows_read, confVars, loop, backboneVars>>

\* A variant of line 145 that counts outgoing transactions only.
DegreeOut(G, n) == Cardinality({e \in G : e.src = n})

\* self.g.degree(n): in-degree plus out-degree, line 145
Degree(G, n) ==
    Cardinality({e \in G : e.src = n}) + Cardinality({e \in G : e.dst = n})

\* set_subject_candidates (lines 140-147), called once per run (line 944).
SetSubjectCandidates ==
    /\ err = "none"
    /\ hubs = {} /\ subject_candidates = {}
    /\ nodes # <<>>
    /\ hubs' = {n \in Range(nodes) : degree_threshold <= Degree(g, n)}
    /\ subject_candidates' = Range(nodes)
    /\ last' = [kind |-> "set_subject_candidates"]
    /\ UNCHANGED <<graphVars, err, alert_id, alert_groups, selected, row,
                   row_left, rows_read, confVars, loop, backboneVars>>

\* Lines 675-683: the amounts and the floor a call works with.
MinAmount(individual_amount) ==
    IF individual_amount = None THEN default_min_amount ELSE individual_amount

MaxAmount(individual_amount) ==
    IF individual_amount = None THEN default_max_amount ELSE individual_amount * 2

Floor(aggregated_amount) ==
    IF aggregated_amount = None THEN 0 ELSE aggregated_amount

\* random.uniform(min_amount, max_amount) and random.randrange(start_day, end_day)
DrawEnv(individual_amount) ==
    [amounts |-> MinAmount(individual_amount)..MaxAmount(individual_amount),
     dates   |-> 0..(total_steps - 1)]

\* A variant of lines 849-850 without the test of is_fraud.
SetFraudFlagAlways(flags, subject, is_fraud) == [flags EXCEPT ![subject] = TRUE]

\* Lines 849-850: if is_fraud: self.g.node[subject]["isFraud"] = True
SetFraudFlag(flags, subject, is_fraud) ==
    IF is_fraud THEN [flags EXCEPT ![subject] = TRUE] ELSE flags

AlertRecord(p, sel, run, raised) ==
    [kind |-> "alert", is_fraud |-> p.is_fraud, type |-> p.type,
     accounts |-> p.accounts, freq |-> p.transaction_freq,
     floor |-> Floor(p.aggregated_amount), subject |-> sel.subject,
     members |-> sel.members, txs |-> run, raised |-> raised]

NoSelection == [subject |-> None, members |-> <<>>]

\* add_alert_pattern (lines 651-853) for the arguments p, at most max_calls
\* times in one run.  A call whose get_alert_members never returns changes
\* nothing and is left out.
add_alert_pattern(p, max_calls) ==
    /\ err = "none"
    /\ Len(selected) < max_calls
    /\ IF hubs = {}
       THEN \* random.choice(self.hubs) on an empty list, line 181
            /\ err' = "IndexError"
            /\ last' = AlertRecord(p, NoSelection, <<>>, "IndexError")
            /\ UNCHANGED <<graphVars, hubs, subject_candidates, alert_id,
                           alert_groups, selected>>
       ELSE \E sel \in get_alert_members(g, hubs, subject_candidates, p.accounts) :
            /\ subject_candidates' =
                  RemoveSubject(subject_candidates, sel.subject, p.is_fraud)
            /\ selected' = Append(selected, [subject |-> sel.subject,
                                             members |-> sel.members,
                                             has_subject |-> p.is_fraud])
            /\ UNCHANGED <<nodes, init_balance, tx_id, hubs>>
            /\ IF p.type \notin DOMAIN alert_types
               THEN \* self.alert_types[pattern_type], line 689
                    /\ err' = "KeyError"
                    /\ last' = AlertRecord(p, sel, <<>>, "KeyError")
                    /\ UNCHANGED <<g, created, isFraud, alert_id, alert_groups>>
               ELSE IF p.type \notin HandledTypes
               THEN \* lines 840-842
                    /\ last' = AlertRecord(p, sel, <<>>, "none")
                    /\ UNCHANGED <<g, created, isFraud, alert_id, alert_groups, err>>
               ELSE \E run \in PatternRuns(p.type, sel.subject, sel.members,
                                           p.transaction_freq,
                                           Floor(p.aggregated_amount),
                                           DrawEnv(p.individual_amount)) :
                    LET st == AddAlertEdges(GraphState, run, 1)
                        sub_g == AddAlertEdges([g |-> {}, created |-> <<>>], run, 1).g
                        group == [reason |-> p.type,
                                  modelID |-> alert_types[p.type],
                                  subject |-> IF p.is_fraud THEN sel.subject ELSE None,
                                  edges |-> sub_g]
                    IN  /\ g' = st.g
                        /\ created' = st.created
                        /\ alert_groups' =
                              [a \in DOMAIN alert_groups \cup {alert_id} |->
                                  IF a = alert_id THEN group ELSE alert_groups[a]]
                        /\ isFraud' = SetFraudFlag(isFraud, sel.subject, p.is_fraud)
                        /\ alert_id' = alert_id + 1
                        /\ err' = "none"
                        /\ last' = AlertRecord(p, sel, run, "none")
    /\ UNCHANGED <<confVars, loop, backboneVars>>

\* The pattern names a caller can pass: the seven documented ones and one
\* that no branch handles.
PatternTypes == HandledTypes \cup {"scatter"}

\* The pattern types whose loops break on count and amount.
GatedTypes == {"fan_in", "fan_out", "bipartite", "mixed", "stack"}

\* Calls that leave every optional argument at its default.
AlertParams ==
    [is_fraud : BOOLEAN, type : PatternTypes, accounts : 1..MaxAccounts,
     individual_amount : {None}, aggregated_amount : {None},
     transaction_freq : {None}]

\* Calls that also set individual_amount, aggregated_amount and
\* transaction_freq where the pattern reads them.
AlertParamsFull ==
    [is_fraud : BOOLEAN, type : GatedTypes, accounts : 1..MaxAccounts,
     individual_amount : {None, 1}, aggregated_amount : {None, MaxFloor},
     transaction_freq : {None} \cup 1..MaxFreq]
    \cup AlertParams

\* A direct call of add_alert_pattern.
AddAlertPattern ==
    /\ row_left = 0
    /\ \E p \in AlertParams : add_alert_pattern(p, MaxAlerts)
    /\ UNCHANGED <<row, row_left, rows_read>>

\* The state after TransactionGenerator.__init__ (lines 60-138).
Init ==
    /\ nodes = <<>>
    /\ isFraud = <<>>
    /\ init_balance = <<>>
    /\ g = {}
    /\ tx_id = 0
    /\ hubs = {}
    /\ subject_candidates = {}
    /\ alert_id = 0
    /\ alert_groups = <<>>
    /\ err = "none"
    /\ created = <<>>
    /\ last = NoLast
    /\ selected = <<>>
    /\ row = NoRow
    /\ row_left = 0
    /\ total_steps = 1
    /\ default_min_amount = 1
    /\ default_max_amount = 1
    /\ degree_threshold = 1
    /\ rows_read = 0
    /\ loop = NoLoop
    /\ bpc = "idle"
    /\ num_accounts = 0
    /\ raw_in = <<>>
    /\ raw_out = <<>>
    /\ in_deg = <<>>
    /\ out_deg = <<>>
    /\ in_shuffled = <<>>
    /\ in_stublist = <<>>
    /\ out_stublist = <<>>
    /\ selfloop_log = {}

Next == AddAccount \/ AddTransaction \/ SetSubjectCandidates \/ AddAlertPattern

Spec == Init /\ [][Next]_vars

-----------------------------------------------------------------------------
\* load_alert_patterns (lines 552-649), one alert-table row at a time.

AlertRows ==
    [num : 1..MaxRepeat, type : PatternTypes, accounts : 1..MaxAccounts,
     individual_amount : {None}, aggregated_amount : {None},
     transaction_count : {None} \cup 1..MaxFreq, is_fraud : BOOLEAN]

\* Lines 633-640: the two reasons a row is skipped.
RowSkipped(r) ==
    \/ r.type \notin DOMAIN alert_types
    \/ (r.transaction_count # None /\ r.transaction_count < r.accounts)

\* Lines 614-640: the next row is read and either skipped or expanded.
ReadAlertRow ==
    /\ err = "none"
    /\ bpc = "done"
    /\ hubs # {} \/ subject_candidates # {}
    /\ row_left = 0
    /\ rows_read < MaxRows
    /\ \E r \in AlertRows :
        /\ row' = r
        /\ row_left' = IF RowSkipped(r) THEN 0 ELSE r.num
        /\ last' = [kind |-> IF RowSkipped(r) THEN "row_skipped" ELSE "row_read"]
    /\ rows_read' = rows_read + 1
    /\ UNCHANGED <<graphVars, err, hubs, subject_candidates, alert_id,
                   alert_groups, selected, confVars, loop, backboneVars>>

\* Lines 642-646: one add_alert_pattern call of the row being expanded.
RowAlertPattern ==
    /\ row_left > 0
    /\ add_alert_pattern([is_fraud |-> row.is_fraud, type |-> row.type,
                          accounts |-> row.accounts,
                          individual_amount |-> row.individual_amount,
                          aggregated_amount |-> row.aggregated_amount,
                          transaction_freq |-> row.transaction_count],
                         MaxRowAlerts)
    /\ row_left' = row_left - 1
    /\ UNCHANGED <<row, rows_read>>

\* set_subject_candidates as the script calls it (line 944): after
\* generate_normal_transactions has returned.
SetSubjectCandidatesRun == bpc = "done" /\ SetSubjectCandidates

\* The degree files of the runs below: every account with in- and out-degree
\* 1, and the same with the last account left without transactions.
RunDegreeFiles ==
    {[i \in 1..MaxAccounts |-> 1],
     [i \in 1..MaxAccounts |-> IF i < MaxAccounts THEN 1 ELSE 0]}

\* A run of the script (lines 941-945) from the loaded accounts on, alert
\* rows expanded with amounts and dates that leave no choice.
InitRows ==
    /\ num_accounts = MaxAccounts
    /\ raw_in \in RunDegreeFiles
    /\ raw_out = raw_in
    /\ total_steps = 1
    /\ default_min_amount = 1
    /\ default_max_amount = 1
    /\ degree_threshold = 1
    /\ AfterLoad

NextRows ==
    \/ GetDegrees
    \/ DirectedConfigurationModel
    \/ AddBaseTransactions
    \/ SetSubjectCandidatesRun
    \/ ReadAlertRow
    \/ RowAlertPattern

SpecRows == InitRows /\ [][NextRows]_vars

-----------------------------------------------------------------------------
\* A run of the script with one direct add_alert_pattern call whose amounts
\* and dates are drawn from two values each.
InitRun ==
    /\ num_accounts = MaxAccounts
    /\ raw_in \in RunDegreeFiles
    /\ raw_out = raw_in
    /\ total_steps = 2
    /\ default_min_amount = 1
    /\ default_max_amount = 1
    /\ degree_threshold = 1
    /\ AfterLoad

AddAlertPatternRun ==
    /\ bpc = "done"
    /\ hubs # {} \/ subject_candidates # {}
    /\ row_left = 0
    /\ \E p \in AlertParamsFull : add_alert_pattern(p, MaxAlerts)
    /\ UNCHANGED <<row, row_left, rows_read>>

NextRun ==
    \/ GetDegrees
    \/ DirectedConfigurationModel
    \/ AddBaseTransactions
    \/ SetSubjectCandidatesRun
    \/ AddAlertPatternRun

SpecRun == InitRun /\ [][NextRun]_vars

-----------------------------------------------------------------------------
\* A run of the script with several direct add_alert_pattern calls, fraud and
\* not, of a sender-to-receivers pattern and of the ring pattern.
SubjectParams ==
    [is_fraud : BOOLEAN, type : {"fan_out", "cycle"}, accounts : 1..MaxAccounts,
     individual_amount : {None}, aggregated_amount : {None},
     transaction_freq : {None}]

AddAlertPatternSubjects ==
    /\ bpc = "done"
    /\ hubs # {} \/ subject_candidates # {}
    /\ row_left = 0
    /\ \E p \in SubjectParams : add_alert_pattern(p, MaxSelections)
    /\ UNCHANGED <<row, row_left, rows_read>>

NextSubjects ==
    \/ GetDegrees
    \/ DirectedConfigurationModel
    \/ AddBaseTransactions
    \/ SetSubjectCandidatesRun
    \/ AddAlertPatternSubjects

SpecSubjects == InitRows /\ [][NextSubjects]_vars

-----------------------------------------------------------------------------
\* Properties of the shared graph and of the alert engine.

\* C2: every transaction of the shared graph has an ID no other transaction
\* has, and a transaction created later has a larger ID than every
\* transaction created earlier.
C2_UniqueIncreasingIds ==
    /\ \A e1, e2 \in g : e1.key = e2.key => e1 = e2
    /\ \A i, j \in 1..Len(created) : i < j => created[i][3] < created[j][3]

\* C3: every transaction of the shared graph, from add_transaction or from an
\* alert pattern of any member count, has a source different from its
\* destination, and both are accounts of the graph.
C3_NoSelfLoopKnownEndpoints ==
    \A e \in g : /\ e.src # e.dst
                 /\ e.src \in Range(nodes)
                 /\ e.dst \in Range(nodes)

\* C4: transactions are append-only: whatever add_transaction calls and alert
\* injections follow, in any order, a transaction that exists keeps existing
\* with the same source, destination, ID, amount and date.
C4_AppendOnly == [][\A e \in g : e \in g']_vars

\* C7: an account returned as subject by a selection with has_subject true is
\* never returned as subject by a later selection, whatever has_subject the
\* later selection has.
C7_SubjectNeverReused ==
    \A i, j \in 1..Len(selected) :
        (i < j /\ selected[i].has_subject)
            => selected[j].subject # selected[i].subject

\* C7 witness: a fraud subject is a member of a later selection that does not
\* need a subject, and another member became its subject.
C7_Witness ==
    /\ Len(selected) = 2
    /\ selected[1].has_subject
    /\ ~selected[2].has_subject
    /\ selected[1].subject \in Range(selected[2].members)
    /\ selected[2].subject # selected[1].subject

\* C8: for a count/amount-gated pattern called with an explicit target
\* frequency, no transaction is generated after the first one at which the
\* count has reached the target frequency and the amount the floor.
C8_StopsWhenBothReached ==
    (/\ last.kind = "alert"
     /\ last.raised = "none"
     /\ last.type \in GatedTypes
     /\ last.freq # None)
        => \A k \in 1..(Len(last.txs) - 1) :
              ~(k >= last.freq /\ SumAmount(SubSeq(last.txs, 1, k)) >= last.floor)

\* C9: an add_alert_pattern call with a pattern type no branch handles raises
\* no error and leaves the graph, the subject candidates, the alert groups,
\* the alert id and the fraud flags as they were.
C9_UnknownTypeNoOp ==
    [][(/\ hubs # {}
        /\ last' # last
        /\ last'.kind = "alert"
        /\ last'.type \notin HandledTypes)
          => (/\ err' = "none"
              /\ g' = g
              /\ subject_candidates' = subject_candidates
              /\ alert_groups' = alert_groups
              /\ alert_id' = alert_id
              /\ isFraud' = isFraud)]_vars

\* C10: an alert-table row with accounts = 1, or with a transaction count
\* smaller than accounts, adds no transaction and no alert group and raises
\* no error, for every pattern type.
C10_DegenerateRowSkipped ==
    (/\ rows_read = 1
     /\ \/ row.accounts = 1
        \/ (row.transaction_count # None /\ row.transaction_count < row.accounts))
        => (/\ err = "none"
            /\ Cardinality(g) = tx_id
            /\ DOMAIN alert_groups = {})

\* C11: an add_transaction call fails exactly when its source or its
\* destination is not an account of the graph or the two are equal, and a
\* failing call leaves the edges of the graph and the transaction counter as
\* they were.
C11_FailedCallChangesNothing ==
    [][(/\ last'.kind = "add_transaction"
        /\ (tx_id' # tx_id \/ err' # err))
          => LET bad == \/ last'.src \notin Range(nodes)
                        \/ last'.dst \notin Range(nodes)
                        \/ last'.src = last'.dst
             IN  /\ bad <=> err' \in {"KeyError", "ValueError"}
                 /\ bad => (g' = g /\ tx_id' = tx_id)
                 /\ ~bad => err' = "none"]_vars

\* C11 witness: a self-loop call failed on a graph that already holds a
\* transaction.
C11_Witness ==
    /\ last.kind = "add_transaction"
    /\ last.raised = "ValueError"
    /\ last.src = last.dst
    /\ g # {}
    /\ tx_id = Cardinality(g)

\* C12: a fan_in pattern with N members, no explicit transaction count and no
\* aggregated-amount floor generates exactly N-1 transactions, each from a
\* member other than the subject to the subject, in the alert's sub-graph as
\* in the run.
C12_FanInCount ==
    (/\ last.kind = "alert"
     /\ last.type = "fan_in"
     /\ last.raised = "none"
     /\ last.freq = None
     /\ last.floor = 0)
        => /\ Len(last.txs) = Len(last.members) - 1
           /\ \A i \in 1..Len(last.txs) :
                 /\ last.txs[i].dst = last.subject
                 /\ last.txs[i].src \in Range(last.members) \ {last.subject}
           /\ Cardinality(alert_groups[alert_id - 1].edges) = Len(last.members) - 1

\* C12 witness: a fan_in alert of three members with its two transactions.
C12_Witness ==
    /\ last.kind = "alert"
    /\ last.type = "fan_in"
    /\ last.raised = "none"
    /\ last.freq = None
    /\ last.floor = 0
    /\ Len(last.members) = 3
    /\ Len(last.txs) = 2
    /\ last.txs[1].src # last.txs[2].src

\* C13: a cycle pattern with N members whose subject is at index s of the
\* member list generates N transactions, the i-th (i = 0..N-1) from member
\* (s+i) mod N to member (s+i+1) mod N, with dates that never decrease in i.
C13_CycleRingOrder ==
    (/\ last.kind = "alert"
     /\ last.type = "cycle"
     /\ last.raised = "none")
        => LET N == Len(last.members) IN
           /\ Len(last.txs) = N
           /\ \E s \in 0..(N - 1) :
                 /\ last.members[s + 1] = last.subject
                 /\ \A i \in 0..(N - 1) :
                       /\ last.txs[i + 1].src = last.members[((s + i) % N) + 1]
                       /\ last.txs[i + 1].dst = last.members[((s + i + 1) % N) + 1]
           /\ \A i \in 1..(N - 1) : last.txs[i].date <= last.txs[i + 1].date

\* C13 witness: a ring of three that starts in the middle of the member list
\* and whose dates grow along the way.
C13_Witness ==
    /\ last.kind = "alert"
    /\ last.type = "cycle"
    /\ last.raised = "none"
    /\ Len(last.members) = 3
    /\ last.members[2] = last.subject
    /\ Len(last.txs) = 3
    /\ last.txs[1].src = last.members[2]
    /\ last.txs[3].dst = last.members[2]
    /\ last.txs[1].date < last.txs[3].date

\* C14: in every state an account's fraud flag is true exactly when the
\* account is the recorded subject of an alert group, that is the subject of
\* a completed add_alert_pattern call with is_fraud true; add_account,
\* add_transaction and set_subject_candidates leave the flags false.
C14_FraudFlagIffFraudSubject ==
    /\ DOMAIN isFraud = Range(nodes)
    /\ \A a \in Range(nodes) :
          isFraud[a] <=> \E k \in DOMAIN alert_groups : alert_groups[k].subject = a
    /\ \A k \in DOMAIN alert_groups :
          alert_groups[k].subject # None => alert_groups[k].subject \in Range(nodes)
    /\ (last.kind = "alert" /\ last.raised = "none" /\ last.is_fraud)
          => isFraud[last.subject]
    /\ alert_groups = <<>> => \A a \in Range(nodes) : ~isFraud[a]

\* C14 witness: a fraud alert completed; its subject is flagged and another
\* member of the alert is not.
C14_Witness ==
    /\ last.kind = "alert"
    /\ last.raised = "none"
    /\ last.is_fraud
    /\ isFraud[last.subject]
    /\ \E m \in Range(last.members) : ~isFraud[m]

\* The transactions of the alert sub-graphs 0..k-1, counted.
RECURSIVE SubGraphTotal(_)
SubGraphTotal(k) ==
    IF k = 0 THEN 0
    ELSE Cardinality(alert_groups[k - 1].edges) + SubGraphTotal(k - 1)

\* C15: after the alert injections of a run, every transaction of an alert
\* sub-graph is in the shared graph with the same source, destination, amount
\* and date, and the shared graph holds as many transactions as the backbone
\* has plus the transactions of all alert sub-graphs.
C15_WrittenTwice ==
    bpc = "done" =>
        /\ DOMAIN alert_groups = 0..(alert_id - 1)
        /\ \A k \in DOMAIN alert_groups : \A e \in alert_groups[k].edges :
              \E f \in g : /\ f.src = e.src /\ f.dst = e.dst
                           /\ f.amount = e.amount /\ f.date = e.date
                           /\ f.label # "transaction"
        /\ Cardinality({f \in g : f.label = "transaction"}) = tx_id
        /\ Cardinality(g) = tx_id + SubGraphTotal(alert_id)

\* C15 witness: two alert groups with transactions on top of the backbone.
C15_Witness ==
    /\ bpc = "done"
    /\ row_left = 0
    /\ alert_id = 2
    /\ tx_id > 0
    /\ alert_groups[0].edges # {}
    /\ alert_groups[1].edges # {}
    /\ Cardinality(g) = tx_id + SubGraphTotal(alert_id)

\* C16: account IDs are unique in every state, and an add_account call with
\* an ID that is already an account leaves the accounts, their balances and
\* their fraud flags as they were: the first insertion wins.
C16_DuplicateAccountNoOp ==
    /\ [](\A i, j \in 1..Len(nodes) : nodes[i] = nodes[j] => i = j)
    /\ [][(last'.kind = "add_account" /\ last'.aid \in Range(nodes))
             => (/\ nodes' = nodes
                 /\ init_balance' = init_balance
                 /\ isFraud' = isFraud)]_vars

\* C16 witness: account 0 was added with one balance, then offered again
\* with another, and still has the first.
C16_Witness ==
    /\ last.kind = "add_account"
    /\ last.aid = 0
    /\ Len(nodes) >= 2
    /\ nodes[1] = 0
    /\ last.init_balance # init_balance[0]

\* C17: whenever get_alert_members(num, has_subject) returns, the members are
\* exactly num pairwise distinct accounts, each of them a hub or an account a
\* hub has a transaction to, the subject is one of the members, and the
\* subject was in the subject-candidate pool when the call started.
C17_MembersWellFormed ==
    [][(Len(selected') = Len(selected) + 1)
          => LET sel == selected'[Len(selected')]
                 near == hubs \cup {e.dst : e \in {x \in g : x.src \in hubs}}
             IN  /\ Len(sel.members) = last'.accounts
                 /\ \A i, j \in 1..Len(sel.members) :
                       sel.members[i] = sel.members[j] => i = j
                 /\ Range(sel.members) \subseteq near
                 /\ near \subseteq Range(nodes)
                 /\ sel.subject \in Range(sel.members)
                 /\ sel.subject \in subject_candidates]_vars

\* C17 witness: a second selection of two members returned after a fraud
\* subject had left the pool, in a graph where one account is no hub.
C17_Witness ==
    /\ Len(selected) = 2
    /\ selected[1].has_subject
    /\ Len(selected[2].members) = 2
    /\ selected[1].subject \in Range(selected[2].members)
    /\ hubs # Range(nodes)

\* C18: a set_subject_candidates call makes the hubs exactly the accounts
\* whose in-degree plus out-degree in the graph of that moment is at least the
\* threshold, and makes the subject-candidate pool the set of all accounts.
C18_HubsByDegree ==
    [][(last'.kind = "set_subject_candidates")
          => /\ hubs' = {n \in Range(nodes) :
                           Cardinality({e \in g : e.dst = n})
                             + Cardinality({e \in g : e.src = n}) >= degree_threshold}
             /\ subject_candidates' = Range(nodes)
             /\ g' = g
             /\ nodes' = nodes]_vars

\* C18 witness: after the call some accounts are hubs, one of them only
\* through transactions it received, and some accounts are not.
C18_Witness ==
    /\ last.kind = "set_subject_candidates"
    /\ hubs # {}
    /\ hubs # Range(nodes)
    /\ subject_candidates = Range(nodes)
    /\ \E n \in hubs : \A e \in g : e.src # n

\* C19: after stub matching, position i pairs a node with itself only if every
\* in-stub after i names that node too; if a later in-stub named another node
\* when position i was processed, the pair at i is no self-loop; and
\* processing position i leaves the in-stubs before i as they were.
C19_SwapResolvesConflict ==
    ModelHasRun =>
        LET n == Len(in_stublist)
            tr == MatchTrace(out_stublist, in_shuffled, 1)
        IN  /\ Len(out_stublist) = n
            /\ tr[n + 1] = in_stublist
            /\ \A i \in 1..n :
                  /\ (out_stublist[i] = in_stublist[i])
                        => \A j \in (i + 1)..n : in_stublist[j] = out_stublist[i]
                  /\ (\E j \in (i + 1)..n : tr[i][j] # out_stublist[i])
                        => in_stublist[i] # out_stublist[i]
                  /\ \A k \in 1..(i - 1) : tr[i + 1][k] = tr[i][k]

\* C19 witness: a conflict at a position after the first was resolved by a
\* swap with a later in-stub.
C19_Witness ==
    /\ ModelHasRun
    /\ LET n == Len(in_stublist)
           tr == MatchTrace(out_stublist, in_shuffled, 1)
       IN  \E i \in 2..n :
              /\ tr[i][i] = out_stublist[i]
              /\ tr[i + 1] # tr[i]
              /\ in_stublist[i] # out_stublist[i]

\* C20: when set_subject_candidates has filled the pool and no hub and no
\* account a hub has a transaction to is in the pool, an add_alert_pattern
\* call never comes to an end: its get_alert_members neither returns nor
\* raises, and the pool and the graph stay as they are.
C20_ExhaustedNeverEnds ==
    [][(/\ subject_candidates # {}
        /\ (hubs \cup {e.dst : e \in {x \in g : x.src \in hubs}})
              \cap subject_candidates = {})
          => ~(last' # last /\ last'.kind = "alert")]_vars

\* C21: a mixed pattern call with no explicit transaction count and no
\* aggregated floor completes and generates exactly |A| + |A|x|B| + |B|
\* transactions, A and B being the two middle groups of the member list:
\* subject to each of A, every pair of A x B, each of B to the last member.
C21_MixedCount ==
    (/\ last.kind = "alert"
     /\ last.type = "mixed"
     /\ last.members # <<>>
     /\ last.freq = None
     /\ last.floor = 0)
        => LET n == Len(last.members)
               A == Slice(last.members, 1, n \div 2)
               B == Slice(last.members, n \div 2, n - 1)
           IN  /\ last.raised = "none"
               /\ Len(last.txs) = Len(A) + Len(A) * Len(B) + Len(B)

\* C22: after set_subject_candidates and after each alert-table row that
\* load_alert_patterns has processed, the subject-candidate pool is the set
\* of all accounts without the fraud-flagged ones, and there are as many
\* fraud-flagged accounts as alert groups with a subject.
C22_PoolIsUnflagged ==
    (/\ last.kind \in {"set_subject_candidates", "alert", "row_skipped"}
     /\ row_left = 0
     /\ err = "none")
        => /\ subject_candidates = {a \in Range(nodes) : ~isFraud[a]}
           /\ Cardinality({a \in Range(nodes) : isFraud[a]})
                = Cardinality({k \in DOMAIN alert_groups :
                                  alert_groups[k].subject # None})

\* C22 witness: a fraud row repeated twice has been processed: two accounts
\* are flagged and have left the pool, two alert groups name them.
C22_Witness ==
    /\ last.kind = "alert"
    /\ row_left = 0
    /\ err = "none"
    /\ row.is_fraud
    /\ alert_id = 2
    /\ Cardinality({a \in Range(nodes) : isFraud[a]}) = 2
    /\ Cardinality(subject_candidates) = Len(nodes) - 2

-----------------------------------------------------------------------------
\* The fan_in and fan_out branches of add_alert_pattern iteration by iteration
\* (lines 696-725), in a run of the script with one direct call.

FanParams ==
    [is_fraud : BOOLEAN, type : {"fan_in", "fan_out"}, accounts : 1..MaxAccounts,
     individual_amount : {None, 1}, aggregated_amount : {None, MaxFloor},
     transaction_freq : {None} \cup 1..MaxFreq]

\* Lines 672-700 and 711-715: the members are selected, the parameters
\* prepared and the list the loop cycles over is built.
FanLoopBegin ==
    /\ err = "none"
    /\ bpc = "done"
    /\ hubs # {}
    /\ loop = NoLoop
    /\ Len(selected) < MaxAlerts
    /\ \E p \in FanParams :
       \E sel \in get_alert_members(g, hubs, subject_candidates, p.accounts) :
          LET others == Without(sel.members, sel.subject)
              pairs == [i \in 1..Len(others) |->
                          IF p.type = "fan_in" THEN <<others[i], sel.subject>>
                                               ELSE <<sel.subject, others[i]>>]
          IN  /\ subject_candidates' =
                    RemoveSubject(subject_candidates, sel.subject, p.is_fraud)
              /\ selected' = Append(selected, [subject |-> sel.subject,
                                               members |-> sel.members,
                                               has_subject |-> p.is_fraud])
              /\ loop' = [pc |-> IF pairs = <<>> THEN "ended" ELSE "running",
                          p |-> p, sel |-> sel, pairs |-> pairs, pos |-> 1,
                          transaction_freq |->
                              IF p.transaction_freq = None
                              THEN Len(sel.members) - 1 ELSE p.transaction_freq,
                          transaction_count |-> 0, total_amount |-> 0,
                          txs |-> <<>>, sub_g |-> {}]
    /\ UNCHANGED <<graphVars, hubs, alert_id, alert_groups, err, last, row,
                   row_left, rows_read, confVars, backboneVars>>

\* Lines 701-709 and 716-725: one pass of the loop body over
\* itertools.cycle(...), with its break test.
FanLoopStep ==
    /\ loop.pc = "running"
    /\ loop.transaction_count < MaxLoop
    /\ LET env == DrawEnv(loop.p.individual_amount)
           src == loop.pairs[loop.pos][1]
           dst == loop.pairs[loop.pos][2]
       IN  \E amount \in env.amounts, date \in env.dates :
              /\ g' = add_edge_auto(g, src, dst, amount, date)
              /\ created' = Append(created, <<src, dst, new_edge_key(g, src, dst)>>)
              /\ loop' = [loop EXCEPT
                    !.sub_g = add_edge_auto(loop.sub_g, src, dst, amount, date),
                    !.txs = Append(loop.txs, Tx(src, dst, amount, date)),
                    !.transaction_count = loop.transaction_count + 1,
                    !.total_amount = loop.total_amount + amount,
                    !.pos = (loop.pos % Len(loop.pairs)) + 1,
                    !.pc = IF StopRule("ge", loop.transaction_count + 1,
                                       loop.total_amount + amount,
                                       loop.transaction_freq,
                                       Floor(loop.p.aggregated_amount))
                           THEN "ended" ELSE "running"]
    /\ UNCHANGED <<nodes, isFraud, init_balance, tx_id, alertVars, err,
                   confVars, backboneVars>>

\* Lines 844-853 after the loop has been left.
FanLoopEnd ==
    /\ loop.pc = "ended"
    /\ alert_groups' =
          [a \in DOMAIN alert_groups \cup {alert_id} |->
              IF a = alert_id
              THEN [reason |-> loop.p.type, modelID |-> alert_types[loop.p.type],
                    subject |-> IF loop.p.is_fraud THEN loop.sel.subject ELSE None,
                    edges |-> loop.sub_g]
              ELSE alert_groups[a]]
    /\ isFraud' = SetFraudFlag(isFraud, loop.sel.subject, loop.p.is_fraud)
    /\ alert_id' = alert_id + 1
    /\ last' = AlertRecord(loop.p, loop.sel, loop.txs, "none")
    /\ loop' = NoLoop
    /\ UNCHANGED <<nodes, init_balance, g, tx_id, created, hubs,
                   subject_candidates, err, selected, row, row_left, rows_read,
                   confVars, backboneVars>>

NextFan ==
    \/ GetDegrees
    \/ DirectedConfigurationModel
    \/ AddBaseTransactions
    \/ SetSubjectCandidatesRun
    \/ FanLoopBegin
    \/ FanLoopStep
    \/ FanLoopEnd

\* The loop body and the code after it run whenever they can: the call is one
\* thread of a sequential program.
SpecFan ==
    /\ InitRows
    /\ [][NextFan]_vars
    /\ WF_vars(FanLoopStep)
    /\ WF_vars(FanLoopEnd)

\* C23: with at least two members and positive amounts a fan_in or fan_out
\* loop that is running is eventually left, for every target frequency and
\* floor; with a single member the loop is left with no transaction
\* generated, even when the target frequency is 1 or more.
C23_FanLoopsTerminate ==
    /\ (loop.pc = "running") ~> (loop.pc = "ended")
    /\ [](loop.pc = "ended" =>
            /\ Len(loop.sel.members) = 1 => loop.txs = <<>>
            /\ Len(loop.sel.members) >= 2 =>
                  /\ loop.transaction_count >= loop.transaction_freq
                  /\ loop.total_amount >= Floor(loop.p.aggregated_amount)
                  /\ loop.transaction_count = Len(loop.txs))

\* C23 witness: a loop over two members was left after it had gone round its
\* one-entry list more than once to reach an explicit target.
C23_Witness ==
    /\ loop.pc = "ended"
    /\ Len(loop.sel.members) = 2
    /\ loop.p.transaction_freq # None
    /\ loop.p.aggregated_amount # None
    /\ Len(loop.txs) > Len(loop.pairs)

====
